---- MODULE Spec2Model ----
(***************************************************************************)
(* Model of the mqtt Connection worker of powerunit-io/platform            *)
(* (src/unnamed/part_000): Start with its supervisor loop and heartbeat    *)
(* monitors, Subscribe, BrokerHandler with the event queue, and Stop.      *)
(*                                                                         *)
(* Processes: the caller of Start (and later of Stop), the supervisor loop *)
(* goroutine (lines 47-96), one heartbeat monitor goroutine per loop       *)
(* iteration (lines 68-83), the transport's delivery context running       *)
(* BrokerHandler, a consumer of DrainEvents(), and the owner of the `done` *)
(* channel.  Unbuffered channel operations are rendezvous: a send and its  *)
(* receive are one joint action.  An uncaught panic ends the process:      *)
(* every action is disabled once panicked is TRUE.                         *)
(***************************************************************************)
EXTENDS Integers, Sequences, FiniteSets, TLC

\* ---- bounds of the model ----
MaxClients == 2     \* transport clients the loop may create (MQTT.NewClient calls)
MaxMsgs == 2        \* inbound messages handed to BrokerHandler
MaxStops == 2       \* calls of Stop()
Concurrency == 1    \* utils.GetConcurrencyCount(...): capacity of c.events

\* Package constant passed to Subscribe at line 63; it is declared outside
\* the files modelled here.
MaxTopicSubscribeAttempts == 3

Clients == 1..MaxClients
NoClient == 0
\* error values: nil, and the errors a subscribe token may carry
NoErr == "nil"
SubErrors == {"errA", "errB"}

VARIABLES
    callerPc,        \* caller of Start: "init" | "select" | "sendTimeout" | "done"
    startResult,     \* value Start returned: "none" | "nil" | "connectErr"
    lpc,             \* position of the supervisor loop goroutine
    conn,            \* c.conn: the client the Connection currently points to
    cstate,          \* per client: "none" | "connecting" | "failed" | "up" | "down" | "closed"
    subscribed,      \* clients on which the topic is subscribed
    subI,            \* Subscribe: loop index i
    subErr,          \* Subscribe: local err
    subAttempts,     \* transport subscribe attempts made by the current Subscribe call
    subLast,         \* what the transport answered to the latest of them
    connectLog,      \* outcomes of the completed Connect() calls, oldest first
    connectedClosed, \* the `connected` channel has been closed
    mon,             \* per loop iteration: heartbeat monitor "none" | "select" | "sendReload" | "exited" | "stopped"
    sig,             \* the `done` channel: "idle" | "fired" (readable) | "taken" (a sent value was consumed)
    panicked,        \* the process died of an uncaught panic
    events,          \* c.events: the buffered channel, as a sequence
    holding,         \* per client: event its delivery context is about to enqueue (0: none)
    msgCount,        \* inbound messages seen so far
    dropped,         \* messages BrokerHandler discarded on decode failure
    delivered,       \* events a consumer received from DrainEvents()
    stopPc,          \* Stop(): "idle" | "unsubscribe" | "disconnect" | "sleep"
    stopLog,         \* transport operations issued by the current/last Stop() call
    stopResult,      \* value the last Stop() returned: "none" | "nil"
    stopCalls,       \* completed Stop() calls
    config,          \* c.Config: the "connection" entry Validate reads
    validateResult   \* outcome of Validate(): "none" until it has run

workerVars == <<callerPc, startResult, lpc, conn, cstate, subscribed, subI, subErr,
                subAttempts, subLast, connectLog, connectedClosed, mon, sig, panicked,
                events, holding, msgCount, dropped, delivered, stopPc, stopLog,
                stopResult, stopCalls>>
validateVars == <<config, validateResult>>
vars == <<workerVars, validateVars>>

callerVars == <<callerPc, startResult>>
subVars == <<subI, subErr, subAttempts, subLast>>
drainVars == <<events, holding, msgCount, dropped, delivered>>
stopVars == <<stopPc, stopLog, stopResult, stopCalls>>

IsConnected(k) == cstate[k] = "up"

\* ---------------------------------------------------------------------
\* Validate (lines 171-251): configuration values
\* ---------------------------------------------------------------------

\* A value stored under a key of the connection map: the key is absent
\* (the lookup yields nil), it holds something that is not a string, or it
\* holds a string, kept as its sequence of characters.
Absent == [t |-> "absent", s |-> <<>>]
Other == [t |-> "other", s |-> <<>>]
Str(chars) == [t |-> "string", s |-> chars]

\* v.(string) with the two-value form: ok
IsString(v) == v.t = "string"

\* strings.Contains(str, ch) for a one-character ch
Contains(str, ch) == \E i \in DOMAIN str : str[i] = ch

\* Allow-list consulted at line 190; it is declared outside the files
\* modelled here.  "tcp" is the scheme known to be on it.
AvailableConnectionTypes == { <<"t", "c", "p">> }

\* utils.StringInSlice
StringInSlice(str, list) == str \in list

\* Thresholds of lines 206 and 236.
MinAddressLen == 5
MinClientIDLen == 2

NetworkValues == {Absent, Other, Str(<<"t", "c", "p">>), Str(<<"x", "y", "z">>)}
AddressValues ==
    {Absent, Other,
     Str(<<"a", ":", "1">>),                 \* has ':', too short
     Str(<<"a", "b", "c", "d", "e", "f">>),  \* long enough, no ':'
     Str(<<"a", "b", ":", "1", "2">>),       \* exactly five characters
     Str(<<"1", "0", ".", "0", ".", "0", ".", "1", ":", "1", "8", "8", "3">>)}
CredentialValues == {Absent, Other, Str(<<>>), Str(<<"u">>)}
ClientIDValues ==
    {Absent, Other, Str(<<>>), Str(<<"c">>), Str(<<"c", "l">>),
     Str(<<"c", "l", "1">>)}
TopicValues ==
    {Absent, Other, Str(<<>>),
     Str(<<"s", "e", "n", "s", "o", "r", "s", "/", "1">>)}

\* c.Config.Get("connection"): nil, or a map with these keys.
NoConnection ==
    [present |-> FALSE, network |-> Absent, address |-> Absent,
     username |-> Absent, password |-> Absent, clientId |-> Absent,
     topic |-> Absent]
Configs ==
    {NoConnection} \cup
    [present : {TRUE}, network : NetworkValues, address : AddressValues,
     username : CredentialValues, password : CredentialValues,
     clientId : ClientIDValues, topic : TopicValues]

\* The configuration the worker is started with in the connection model.
DefaultConfig ==
    [present |-> TRUE,
     network |-> Str(<<"t", "c", "p">>),
     address |-> Str(<<"1", "0", ".", "0", ".", "0", ".", "1", ":", "1", "8", "8", "3">>),
     username |-> Str(<<>>),
     password |-> Str(<<>>),
     clientId |-> Str(<<"c", "l", "1">>),
     topic |-> Str(<<"s", "e", "n", "s", "o", "r", "s", "/", "1">>)]

\* Lines 174-250, in the order of the code.  The result is nil, one of the
\* errors built by fmt.Errorf, or "panic": the single-value type assertion
\* of line 227 panics when clientId is absent or not a string, before the
\* two-value assertion of line 229 is reached.
ValidateOutcome(data) ==
    IF ~data.present THEN "errConnectionMissing"
    ELSE IF ~IsString(data.network) THEN "errNetworkNotSet"
    ELSE IF ~StringInSlice(data.network.s, AvailableConnectionTypes)
        THEN "errNetworkNotValid"
    ELSE IF ~IsString(data.address) THEN "errAddressNotSet"
    ELSE IF Len(data.address.s) < MinAddressLen \/ ~Contains(data.address.s, ":")
        THEN "errAddressNotValid"
    ELSE IF ~IsString(data.username) THEN "errUsernameNotSet"
    ELSE IF ~IsString(data.password) THEN "errPasswordNotSet"
    ELSE IF ~IsString(data.clientId) THEN "panic"
    ELSE IF ~IsString(data.clientId) THEN "errClientIdNotSet"
    ELSE IF Len(data.clientId.s) < MinClientIDLen THEN "errClientIdTooShort"
    ELSE IF ~IsString(data.topic) THEN "errTopicNotSet"
    ELSE "nil"

\* State right after construction of the Connection, before Start.
InitWorker ==
    /\ callerPc = "init"
    /\ startResult = "none"
    /\ lpc = "idle"
    /\ conn = NoClient
    /\ cstate = [k \in Clients |-> "none"]
    /\ subscribed = {}
    /\ subI = 0
    /\ subErr = NoErr
    /\ subAttempts = 0
    /\ subLast = NoErr
    /\ connectLog = <<>>
    /\ connectedClosed = FALSE
    /\ mon = [k \in Clients |-> "none"]
    /\ sig = "idle"
    /\ panicked = FALSE
    /\ events = <<>>
    /\ holding = [k \in Clients |-> 0]
    /\ msgCount = 0
    /\ dropped = {}
    /\ delivered = <<>>
    /\ stopPc = "idle"
    /\ stopLog = <<>>
    /\ stopResult = "none"
    /\ stopCalls = 0

Init ==
    /\ InitWorker
    /\ config = DefaultConfig
    /\ validateResult = "none"

\* Validate() is called once on a configuration of any shape.
ValidateInit ==
    /\ InitWorker
    /\ config \in Configs
    /\ validateResult = "none"

\* Lines 171-251: one call of Validate.
Validate ==
    /\ validateResult = "none"
    /\ validateResult' = ValidateOutcome(config)
    /\ UNCHANGED <<workerVars, config>>

ValidateNext == Validate
ValidateSpec == ValidateInit /\ [][ValidateNext]_vars

\* ---------------------------------------------------------------------
\* Start: the caller's side
\* ---------------------------------------------------------------------

\* Lines 32-47: build options, allocate the queue and the two unbuffered
\* channels, launch the supervisor loop, reach the select of line 98.
StartBegin ==
    /\ ~panicked
    /\ callerPc = "init"
    /\ callerPc' = "select"
    /\ lpc' = "newClient"
    /\ events' = <<>>
    /\ UNCHANGED <<startResult, conn, cstate, subscribed, subVars, connectLog,
                   connectedClosed, mon, sig, panicked, holding, msgCount,
                   dropped, delivered, stopVars>>
    /\ UNCHANGED validateVars

\* Lines 99-104, 117: `connected` is closed, Start returns nil.
CallerRecvConnected ==
    /\ ~panicked
    /\ callerPc = "select"
    /\ connectedClosed
    /\ callerPc' = "done"
    /\ startResult' = "nil"
    /\ UNCHANGED <<lpc, conn, cstate, subscribed, subVars, connectLog,
                   connectedClosed, mon, sig, panicked, drainVars, stopVars>>
    /\ UNCHANGED validateVars

\* Faulty variant of CallerRecvErr: the error received at line 107 is not returned;
\* Start falls through to the return nil of line 117.
CallerRecvErr_ReturnsNil ==
    /\ ~panicked
    /\ callerPc = "select"
    /\ lpc = "sendErr"
    /\ callerPc' = "done"
    /\ startResult' = "nil"
    /\ lpc' = "newClient"
    /\ UNCHANGED <<conn, cstate, subscribed, subVars, connectLog,
                   connectedClosed, mon, sig, panicked, drainVars, stopVars>>
    /\ UNCHANGED validateVars

\* Lines 55-56 with 107-108: the loop's send on `errors` meets the caller's
\* receive; Start returns the error and the loop continues its for.
CallerRecvErr ==
    /\ ~panicked
    /\ callerPc = "select"
    /\ lpc = "sendErr"
    /\ callerPc' = "done"
    /\ startResult' = "connectErr"
    /\ lpc' = "newClient"
    /\ UNCHANGED <<conn, cstate, subscribed, subVars, connectLog,
                   connectedClosed, mon, sig, panicked, drainVars, stopVars>>
    /\ UNCHANGED validateVars

\* Lines 109-114: the timer fires and the caller sends the timeout error on
\* the unbuffered `errors` channel.  Only the caller itself ever receives
\* from `errors`, so this send has no partner and line 117 is not reached.
CallerTimeout ==
    /\ ~panicked
    /\ callerPc = "select"
    /\ callerPc' = "sendTimeout"
    /\ UNCHANGED <<startResult, lpc, conn, cstate, subscribed, subVars,
                   connectLog, connectedClosed, mon, sig, panicked, drainVars,
                   stopVars>>
    /\ UNCHANGED validateVars

\* ---------------------------------------------------------------------
\* Start: the supervisor loop goroutine (lines 47-96)
\* ---------------------------------------------------------------------

\* Faulty variant of LoopNewClient: the queue allocation of lines 41-42 sits
\* inside the loop, so every iteration installs a fresh, empty queue.
LoopNewClient_ReallocatesQueue ==
    /\ ~panicked
    /\ lpc = "newClient"
    /\ conn < MaxClients
    /\ conn' = conn + 1
    /\ cstate' = [cstate EXCEPT ![conn + 1] = "connecting"]
    /\ lpc' = "connectWait"
    /\ events' = <<>>
    /\ UNCHANGED <<callerVars, subscribed, subVars, connectLog, connectedClosed,
                   mon, sig, panicked, holding, msgCount, dropped, delivered,
                   stopVars>>
    /\ UNCHANGED validateVars

\* Lines 49-54: a fresh reload channel and a fresh client, to which c.conn
\* now points; c.conn.Connect() is issued and token.Wait() blocks until the
\* transport completes the attempt.
LoopNewClient ==
    /\ ~panicked
    /\ lpc = "newClient"
    /\ conn < MaxClients
    /\ conn' = conn + 1
    /\ cstate' = [cstate EXCEPT ![conn + 1] = "connecting"]
    /\ lpc' = "connectWait"
    /\ UNCHANGED <<callerVars, subscribed, subVars, connectLog, connectedClosed,
                   mon, sig, panicked, drainVars, stopVars>>
    /\ UNCHANGED validateVars

\* Line 54: the token completes with an error; the loop goes to the send
\* of line 55.
LoopConnectFail ==
    /\ ~panicked
    /\ lpc = "connectWait"
    /\ cstate' = [cstate EXCEPT ![conn] = "failed"]
    /\ connectLog' = Append(connectLog, "fail")
    /\ lpc' = "sendErr"
    /\ UNCHANGED <<callerVars, conn, subscribed, subVars, connectedClosed, mon,
                   sig, panicked, drainVars, stopVars>>
    /\ UNCHANGED validateVars

\* Line 54: the token completes without error.
LoopConnectOk ==
    /\ ~panicked
    /\ lpc = "connectWait"
    /\ cstate' = [cstate EXCEPT ![conn] = "up"]
    /\ connectLog' = Append(connectLog, "ok")
    /\ lpc' = "checkConnected"
    /\ UNCHANGED <<callerVars, conn, subscribed, subVars, connectedClosed, mon,
                   sig, panicked, drainVars, stopVars>>
    /\ UNCHANGED validateVars

\* Lines 59-61: not connected after all: continue; otherwise enter
\* Subscribe (line 63 -> lines 127-129).
LoopCheckConnected ==
    /\ ~panicked
    /\ lpc = "checkConnected"
    /\ IF IsConnected(conn)
         THEN /\ lpc' = "subscribe"
              /\ subI' = 0
              /\ subErr' = NoErr
              /\ subAttempts' = 0
              /\ subLast' = NoErr
         ELSE /\ lpc' = "newClient"
              /\ UNCHANGED subVars
    /\ UNCHANGED <<callerVars, conn, cstate, subscribed, connectLog,
                   connectedClosed, mon, sig, panicked, drainVars, stopVars>>
    /\ UNCHANGED validateVars

\* Lines 129-139: one attempt of Subscribe's for loop fails with error e:
\* err = token.Error(); continue (i++).
SubscribeAttemptFail(e) ==
    /\ ~panicked
    /\ lpc = "subscribe"
    /\ subI <= MaxTopicSubscribeAttempts
    /\ subErr' = e
    /\ subI' = subI + 1
    /\ subAttempts' = subAttempts + 1
    /\ subLast' = e
    /\ UNCHANGED <<callerVars, lpc, conn, cstate, subscribed, connectLog,
                   connectedClosed, mon, sig, panicked, drainVars, stopVars>>
    /\ UNCHANGED validateVars

\* Lines 129-146: one attempt succeeds: err = nil; break.
SubscribeAttemptOk ==
    /\ ~panicked
    /\ lpc = "subscribe"
    /\ subI <= MaxTopicSubscribeAttempts
    /\ IsConnected(conn)
    /\ subErr' = NoErr
    /\ subAttempts' = subAttempts + 1
    /\ subLast' = NoErr
    /\ subscribed' = subscribed \cup {conn}
    /\ lpc' = "subReturn"
    /\ UNCHANGED <<callerVars, conn, cstate, subI, connectLog, connectedClosed,
                   mon, sig, panicked, drainVars, stopVars>>
    /\ UNCHANGED validateVars

\* Faulty variant of SubscribeExhausted: the loop condition is i < maxRetryAttempts.
SubscribeExhausted_OffByOne ==
    /\ ~panicked
    /\ lpc = "subscribe"
    /\ subI >= MaxTopicSubscribeAttempts
    /\ lpc' = "subReturn"
    /\ UNCHANGED <<callerVars, conn, cstate, subscribed, subVars, connectLog,
                   connectedClosed, mon, sig, panicked, drainVars, stopVars>>
    /\ UNCHANGED validateVars

\* Line 129: the loop condition i <= maxRetryAttempts fails.
SubscribeExhausted ==
    /\ ~panicked
    /\ lpc = "subscribe"
    /\ subI > MaxTopicSubscribeAttempts
    /\ lpc' = "subReturn"
    /\ UNCHANGED <<callerVars, conn, cstate, subscribed, subVars, connectLog,
                   connectedClosed, mon, sig, panicked, drainVars, stopVars>>
    /\ UNCHANGED validateVars

\* Line 149 with lines 63-83: Subscribe returns err, the loop discards the
\* value and closes `connected`.  Closing a closed channel panics, and an
\* uncaught panic in a goroutine ends the process.  Otherwise the loop
\* launches this iteration's heartbeat monitor and waits for its reload.
LoopCloseConnected ==
    /\ ~panicked
    /\ lpc = "subReturn"
    /\ IF connectedClosed
         THEN /\ panicked' = TRUE
              /\ UNCHANGED <<lpc, connectedClosed, mon, subVars>>
         ELSE /\ connectedClosed' = TRUE
              /\ mon' = [mon EXCEPT ![conn] = "select"]
              /\ lpc' = "waitReload"
              /\ subI' = 0
              /\ subErr' = NoErr
              /\ subAttempts' = 0
              /\ subLast' = NoErr
              /\ UNCHANGED panicked
    /\ UNCHANGED <<callerVars, conn, cstate, subscribed, connectLog, sig,
                   drainVars, stopVars>>
    /\ UNCHANGED validateVars

\* Lines 73-77: a tick; the monitor of iteration k checks c.conn.
MonitorTick(k) ==
    /\ ~panicked
    /\ mon[k] = "select"
    /\ IF ~IsConnected(conn)
         THEN mon' = [mon EXCEPT ![k] = "sendReload"]
         ELSE UNCHANGED mon
    /\ UNCHANGED <<callerVars, lpc, conn, cstate, subscribed, subVars,
                   connectLog, connectedClosed, sig, panicked, drainVars,
                   stopVars>>
    /\ UNCHANGED validateVars

\* Faulty variant of MonitorSendReload: the `return` of line 76 is missing,
\* the monitor goes back to its select after the send.
MonitorSendReload_NoReturn(k) ==
    /\ ~panicked
    /\ mon[k] = "sendReload"
    /\ lpc = "waitReload"
    /\ conn = k
    /\ mon' = [mon EXCEPT ![k] = "select"]
    /\ lpc' = "sleep"
    /\ UNCHANGED <<callerVars, conn, cstate, subscribed, subVars, connectLog,
                   connectedClosed, sig, panicked, drainVars, stopVars>>
    /\ UNCHANGED validateVars

\* Lines 75-76 with 88-90: the monitor's send on its iteration's reload
\* channel meets the loop's receive; the monitor returns.
MonitorSendReload(k) ==
    /\ ~panicked
    /\ mon[k] = "sendReload"
    /\ lpc = "waitReload"
    /\ conn = k
    /\ mon' = [mon EXCEPT ![k] = "exited"]
    /\ lpc' = "sleep"
    /\ UNCHANGED <<callerVars, conn, cstate, subscribed, subVars, connectLog,
                   connectedClosed, sig, panicked, drainVars, stopVars>>
    /\ UNCHANGED validateVars

\* Faulty variant of MonitorRecvDone: on the stop signal the monitor sends on
\* its reload channel before it returns, which releases the loop.
MonitorRecvDone_EmitsReload(k, closed) ==
    /\ ~panicked
    /\ mon[k] = "select"
    /\ sig = "fired"
    /\ lpc = "waitReload"
    /\ conn = k
    /\ mon' = [mon EXCEPT ![k] = "stopped"]
    /\ sig' = IF closed THEN "fired" ELSE "taken"
    /\ lpc' = "sleep"
    /\ UNCHANGED <<callerVars, conn, cstate, subscribed, subVars,
                   connectLog, connectedClosed, panicked, drainVars, stopVars>>
    /\ UNCHANGED validateVars

\* Lines 78-80: the monitor receives from `done` and returns.  What it
\* received is a value the owner sent (consumed: `done` is empty again) or
\* the zero value of a closed channel (`done` stays readable).
MonitorRecvDone(k, closed) ==
    /\ ~panicked
    /\ mon[k] = "select"
    /\ sig = "fired"
    /\ mon' = [mon EXCEPT ![k] = "stopped"]
    /\ sig' = IF closed THEN "fired" ELSE "taken"
    /\ UNCHANGED <<callerVars, lpc, conn, cstate, subscribed, subVars,
                   connectLog, connectedClosed, panicked, drainVars, stopVars>>
    /\ UNCHANGED validateVars

\* Lines 90-91: the cool-down ends; break reloadloop, next iteration.
LoopSleepDone ==
    /\ ~panicked
    /\ lpc = "sleep"
    /\ lpc' = "newClient"
    /\ UNCHANGED <<callerVars, conn, cstate, subscribed, subVars, connectLog,
                   connectedClosed, mon, sig, panicked, drainVars, stopVars>>
    /\ UNCHANGED validateVars

\* The owner of the `done` channel passed to Start (line 31) delivers the
\* stop signal: it closes the channel or blocks sending a value on it; in
\* both cases a receive on `done` can now proceed.
StopSignal ==
    /\ ~panicked
    /\ callerPc # "init"
    /\ sig = "idle"
    /\ sig' = "fired"
    /\ UNCHANGED <<callerVars, lpc, conn, cstate, subscribed, subVars,
                   connectLog, connectedClosed, mon, panicked, drainVars,
                   stopVars>>
    /\ UNCHANGED validateVars

\* ---------------------------------------------------------------------
\* The transport (paho client), as far as the Connection observes it
\* ---------------------------------------------------------------------

\* An established connection is lost.  The options of lines 32-39 leave the
\* session clean, so the broker forgets the client's subscription.
LoseConnection(k) ==
    /\ ~panicked
    /\ cstate[k] = "up"
    /\ cstate' = [cstate EXCEPT ![k] = "down"]
    /\ subscribed' = subscribed \ {k}
    /\ UNCHANGED <<callerVars, lpc, conn, subVars, connectLog,
                   connectedClosed, mon, sig, panicked, drainVars, stopVars>>
    /\ UNCHANGED validateVars

\* Line 35, SetAutoReconnect(true): a client that lost an established
\* connection may re-establish it by itself.
AutoReconnect(k) ==
    /\ ~panicked
    /\ cstate[k] = "down"
    /\ cstate' = [cstate EXCEPT ![k] = "up"]
    /\ UNCHANGED <<callerVars, lpc, conn, subscribed, subVars, connectLog,
                   connectedClosed, mon, sig, panicked, drainVars, stopVars>>
    /\ UNCHANGED validateVars

\* ---------------------------------------------------------------------
\* BrokerHandler and the event queue (lines 42, 121-123, 153-168)
\* ---------------------------------------------------------------------

\* Faulty variant of HandlerReceive: the `return` of line 163 is missing, so a
\* message that failed to decode is logged as dropped and enqueued all the same.
HandlerReceive_EnqueuesUndecoded(k, decodes) ==
    /\ ~panicked
    /\ IsConnected(k)
    /\ k \in subscribed
    /\ holding[k] = 0
    /\ msgCount < MaxMsgs
    /\ msgCount' = msgCount + 1
    /\ holding' = [holding EXCEPT ![k] = msgCount + 1]
    /\ dropped' = IF decodes THEN dropped ELSE dropped \cup {msgCount + 1}
    /\ UNCHANGED <<callerVars, lpc, conn, cstate, subscribed, subVars,
                   connectLog, connectedClosed, mon, sig, panicked, events,
                   delivered, stopVars>>
    /\ UNCHANGED validateVars

\* Lines 153-166: a message on the subscribed topic reaches client k, which
\* runs BrokerHandler in its delivery context; events.NewEvent either fails (the message is
\* logged and dropped) or yields the event that line 167 will enqueue.
HandlerReceive(k, decodes) ==
    /\ ~panicked
    /\ IsConnected(k)
    /\ k \in subscribed
    /\ holding[k] = 0
    /\ msgCount < MaxMsgs
    /\ msgCount' = msgCount + 1
    /\ IF decodes
         THEN /\ holding' = [holding EXCEPT ![k] = msgCount + 1]
              /\ UNCHANGED dropped
         ELSE /\ dropped' = dropped \cup {msgCount + 1}
              /\ UNCHANGED holding
    /\ UNCHANGED <<callerVars, lpc, conn, cstate, subscribed, subVars,
                   connectLog, connectedClosed, mon, sig, panicked, events,
                   delivered, stopVars>>
    /\ UNCHANGED validateVars

\* Faulty variant of HandlerEnqueue: the event is dropped instead of waiting when the
\* queue is full (a select with a default branch).
HandlerEnqueue_DropsWhenFull(k) ==
    /\ ~panicked
    /\ holding[k] # 0
    /\ events' = IF Len(events) < Concurrency
                   THEN Append(events, holding[k]) ELSE events
    /\ holding' = [holding EXCEPT ![k] = 0]
    /\ UNCHANGED <<callerVars, lpc, conn, cstate, subscribed, subVars,
                   connectLog, connectedClosed, mon, sig, panicked, msgCount,
                   dropped, delivered, stopVars>>
    /\ UNCHANGED validateVars

\* Line 167: c.events <- event; a send on a full buffered channel blocks.
HandlerEnqueue(k) ==
    /\ ~panicked
    /\ holding[k] # 0
    /\ Len(events) < Concurrency
    /\ events' = Append(events, holding[k])
    /\ holding' = [holding EXCEPT ![k] = 0]
    /\ UNCHANGED <<callerVars, lpc, conn, cstate, subscribed, subVars,
                   connectLog, connectedClosed, mon, sig, panicked, msgCount,
                   dropped, delivered, stopVars>>
    /\ UNCHANGED validateVars

\* Lines 121-123: a worker receives from the channel DrainEvents() returned.
ConsumerDequeue ==
    /\ ~panicked
    /\ events # <<>>
    /\ delivered' = Append(delivered, Head(events))
    /\ events' = Tail(events)
    /\ UNCHANGED <<callerVars, lpc, conn, cstate, subscribed, subVars,
                   connectLog, connectedClosed, mon, sig, panicked, holding,
                   msgCount, dropped, stopVars>>
    /\ UNCHANGED validateVars

\* ---------------------------------------------------------------------
\* Stop (lines 288-313), called by the owner after Start has returned
\* ---------------------------------------------------------------------

\* Stop reads the field c.conn anew at each of lines 291, 297 and 309,
\* while the loop goroutine may assign it at line 52 in between.

\* Faulty variant of StopCheck: the early return of lines 291-294 is missing.
StopCheck_NoEarlyReturn ==
    /\ ~panicked
    /\ callerPc = "done"
    /\ stopPc = "idle"
    /\ stopCalls < MaxStops
    /\ stopPc' = "unsubscribe"
    /\ stopResult' = "none"
    /\ stopLog' = <<>>
    /\ UNCHANGED <<callerVars, lpc, conn, cstate, subscribed, subVars,
                   connectLog, connectedClosed, mon, sig, panicked, drainVars,
                   stopCalls>>
    /\ UNCHANGED validateVars

\* Lines 289-294: not connected: return nil at once; otherwise go on to
\* the unsubscribe of line 297.
StopCheck ==
    /\ ~panicked
    /\ callerPc = "done"
    /\ stopPc = "idle"
    /\ stopCalls < MaxStops
    /\ IF ~IsConnected(conn)
         THEN /\ stopResult' = "nil"
              /\ stopCalls' = stopCalls + 1
              /\ UNCHANGED <<stopPc, stopLog>>
         ELSE /\ stopPc' = "unsubscribe"
              /\ stopResult' = "none"
              /\ stopLog' = <<>>
              /\ UNCHANGED stopCalls
    /\ UNCHANGED <<callerVars, lpc, conn, cstate, subscribed, subVars,
                   connectLog, connectedClosed, mon, sig, panicked, drainVars>>
    /\ UNCHANGED validateVars

\* Faulty variant of StopUnsubscribe: a failed Unsubscribe makes Stop return the
\* error without disconnecting.
StopUnsubscribe_FailAborts(ok) ==
    /\ ~panicked
    /\ stopPc = "unsubscribe"
    /\ ok => IsConnected(conn)
    /\ stopLog' = IF ok THEN Append(stopLog, <<"unsubscribe", conn, ok>>) ELSE <<>>
    /\ subscribed' = IF ok THEN subscribed \ {conn} ELSE subscribed
    /\ stopPc' = IF ok THEN "disconnect" ELSE "idle"
    /\ stopResult' = IF ok THEN stopResult ELSE "unsubscribeErr"
    /\ stopCalls' = IF ok THEN stopCalls ELSE stopCalls + 1
    /\ UNCHANGED <<callerVars, lpc, conn, cstate, subVars, connectLog,
                   connectedClosed, mon, sig, panicked, drainVars>>
    /\ UNCHANGED validateVars

\* Lines 296-302: Unsubscribe; an error is logged and nothing else.
StopUnsubscribe(ok) ==
    /\ ~panicked
    /\ stopPc = "unsubscribe"
    /\ ok => IsConnected(conn)
    /\ stopLog' = Append(stopLog, <<"unsubscribe", conn, ok>>)
    /\ subscribed' = IF ok THEN subscribed \ {conn} ELSE subscribed
    /\ stopPc' = "disconnect"
    /\ UNCHANGED <<callerVars, lpc, conn, cstate, subVars, connectLog,
                   connectedClosed, mon, sig, panicked, drainVars, stopResult,
                   stopCalls>>
    /\ UNCHANGED validateVars

\* Line 309: Disconnect; the client is closed for good.
StopDisconnect ==
    /\ ~panicked
    /\ stopPc = "disconnect"
    /\ stopLog' = Append(stopLog, <<"disconnect", conn, TRUE>>)
    /\ cstate' = [cstate EXCEPT ![conn] = "closed"]
    /\ subscribed' = subscribed \ {conn}
    /\ stopPc' = "sleep"
    /\ UNCHANGED <<callerVars, lpc, conn, subVars, connectLog, connectedClosed,
                   mon, sig, panicked, drainVars, stopResult, stopCalls>>
    /\ UNCHANGED validateVars

\* Lines 310-312: the graceful window elapses; return nil.
StopSleepDone ==
    /\ ~panicked
    /\ stopPc = "sleep"
    /\ stopLog' = <<>>
    /\ stopPc' = "idle"
    /\ stopResult' = "nil"
    /\ stopCalls' = stopCalls + 1
    /\ UNCHANGED <<callerVars, lpc, conn, cstate, subscribed, subVars,
                   connectLog, connectedClosed, mon, sig, panicked, drainVars>>
    /\ UNCHANGED validateVars

\* ---------------------------------------------------------------------

Next ==
    \/ StartBegin
    \/ CallerRecvConnected
    \/ CallerRecvErr
    \/ CallerTimeout
    \/ LoopNewClient
    \/ LoopConnectFail
    \/ LoopConnectOk
    \/ LoopCheckConnected
    \/ \E e \in SubErrors : SubscribeAttemptFail(e)
    \/ SubscribeAttemptOk
    \/ SubscribeExhausted
    \/ LoopCloseConnected
    \/ \E k \in Clients : MonitorTick(k)
    \/ \E k \in Clients : MonitorSendReload(k)
    \/ \E k \in Clients, closed \in BOOLEAN : MonitorRecvDone(k, closed)
    \/ LoopSleepDone
    \/ StopSignal
    \/ \E k \in Clients : LoseConnection(k)
    \/ \E k \in Clients : AutoReconnect(k)
    \/ \E k \in Clients, d \in BOOLEAN : HandlerReceive(k, d)
    \/ \E k \in Clients : HandlerEnqueue(k)
    \/ ConsumerDequeue
    \/ StopCheck
    \/ \E ok \in BOOLEAN : StopUnsubscribe(ok)
    \/ StopDisconnect
    \/ StopSleepDone

Spec == Init /\ [][Next]_vars

\* The goroutines are scheduled and timers fire: a program step that stays
\* possible is eventually taken.  Nothing obliges the transport to complete
\* a Connect, to lose a connection or to deliver a message, nor the owner to
\* call Stop or to deliver the stop signal.
CallerStep == StartBegin \/ CallerRecvConnected \/ CallerRecvErr \/ CallerTimeout

LoopStep ==
    \/ LoopNewClient
    \/ LoopCheckConnected
    \/ SubscribeAttemptOk
    \/ \E e \in SubErrors : SubscribeAttemptFail(e)
    \/ SubscribeExhausted
    \/ LoopCloseConnected
    \/ LoopSleepDone

MonitorStep ==
    \E k \in Clients :
        \/ MonitorTick(k)
        \/ MonitorSendReload(k)
        \/ \E closed \in BOOLEAN : MonitorRecvDone(k, closed)

DrainStep == ConsumerDequeue \/ \E k \in Clients : HandlerEnqueue(k)

StopStep == (\E ok \in BOOLEAN : StopUnsubscribe(ok)) \/ StopDisconnect \/ StopSleepDone

FairSpec ==
    /\ Spec
    /\ WF_vars(CallerStep)
    /\ WF_vars(LoopStep)
    /\ WF_vars(MonitorStep)
    /\ WF_vars(DrainStep)
    /\ WF_vars(StopStep)

\* ---------------------------------------------------------------------
\* Claims
\* ---------------------------------------------------------------------

Range(q) == {q[i] : i \in DOMAIN q}

\* C1 (as stated): when the first connect attempt failed, a retry succeeded,
\* Subscribe ran and `connected` was fired, and Start returned without the
\* timeout having been taken, Start returned success.
C1_StartSucceedsAfterRetry ==
    ( /\ callerPc = "done"
      /\ Len(connectLog) >= 2
      /\ connectLog[1] = "fail"
      /\ connectLog[2] = "ok"
      /\ connectedClosed )
    => startResult = "nil"

\* C1 (amended): Start returns success only when `connected` has been fired,
\* and it can always do so while it waits and `connected` is fired; when the
\* first connect attempt failed it returns that connect error, and never
\* success, whatever a retry does.
C1_StartResult ==
    [][ /\ (callerPc = "select" /\ connectedClosed) => ENABLED CallerRecvConnected
        /\ (callerPc = "select" /\ callerPc' = "done") =>
              /\ startResult' \in {"nil", "connectErr"}
              /\ startResult' = "nil" =>
                    connectedClosed /\ "ok" \in Range(connectLog)
              /\ (connectLog # <<>> /\ connectLog[1] = "fail") =>
                    startResult' = "connectErr"
        /\ callerPc = "done" => UNCHANGED <<callerPc, startResult>> ]_vars

\* C1 witness: the first attempt failed, Start returned the connect error,
\* and the retry then succeeded and fired `connected`.
C1_Witness ==
    /\ callerPc = "done"
    /\ startResult = "connectErr"
    /\ connectLog = <<"fail", "ok">>
    /\ connectedClosed
    /\ conn \in subscribed

\* C2: once the initial-connection timeout has fired while no Connect has
\* completed, Start returns a timeout error to its caller.
C2_TimeoutReturnsError ==
    [](( /\ callerPc = "sendTimeout"
         /\ connectLog = <<>> )
       => <>(callerPc = "done" /\ startResult \notin {"none", "nil"}))

\* C3: every call to Start eventually returns to its caller.
C3_StartReturns == <>(callerPc = "done")

\* C4: after Start has returned success, a liveness loss makes the loop
\* create a new client and re-subscribe it while the process, the caller
\* included, carries on: the step that follows the re-subscribing of a
\* later client leaves the process running.
C4_ReconnectCarriesOn ==
    [][ ( /\ startResult = "nil"
          /\ lpc = "subReturn"
          /\ conn > 1
          /\ lpc' # lpc \/ panicked' # panicked )
        => (~panicked' /\ lpc' = "waitReload" /\ mon'[conn] = "select") ]_vars

\* C5: until the stop signal is delivered, a connect failure is followed by
\* the loop going round for another connect attempt, also when the failure
\* occurs after the caller of Start has been released: the loop does not
\* stall in reporting the failure.
C5_LoopRetriesForever ==
    [](( /\ lpc = "sendErr"
         /\ callerPc = "done"
         /\ sig = "idle" )
       => <>(lpc # "sendErr" \/ sig # "idle"))

\* C6: `connected` is fired only after a connect and a Subscribe that both
\* succeeded: at the step that closes `connected`, the last Connect completed
\* without error and Subscribe has returned nil.
C6_ConnectedOnlyAfterSubscribe ==
    [][ (~connectedClosed /\ connectedClosed') =>
            /\ connectLog # <<>>
            /\ connectLog[Len(connectLog)] = "ok"
            /\ subAttempts > 0
            /\ subErr = NoErr ]_vars

\* C7: at the return of Subscribe (line 149), with max the attempt budget it
\* was given: at most max+1 transport attempts were made; the value returned
\* is what the last attempt answered; a nil return means that the last
\* attempt, and no earlier one, succeeded; an error return means that
\* exactly max+1 attempts were made and all failed.  While the for loop
\* runs, every attempt made so far has failed.
C7_SubscribeAttempts ==
    /\ lpc \in {"subscribe", "subReturn"} =>
          /\ subAttempts <= MaxTopicSubscribeAttempts + 1
          /\ subErr = subLast
    /\ lpc = "subscribe" =>
          /\ subAttempts = subI
          /\ subAttempts > 0 => subErr \in SubErrors
    /\ lpc = "subReturn" =>
          /\ subAttempts >= 1
          /\ subErr = NoErr => subAttempts = subI + 1
          /\ subErr # NoErr =>
                /\ subErr \in SubErrors
                /\ subAttempts = MaxTopicSubscribeAttempts + 1
                /\ subI = MaxTopicSubscribeAttempts + 1

\* C7 witness: Subscribe returns the last error after max+1 failed attempts.
C7_Witness ==
    /\ lpc = "subReturn"
    /\ subErr = "errB"
    /\ subAttempts = MaxTopicSubscribeAttempts + 1

\* Where message m is: how many producers hold it, how often it is queued, how
\* often it was delivered, whether it was dropped.
Holders(m) == Cardinality({k \in Clients : holding[k] = m})
Queued(m) == Cardinality({i \in DOMAIN events : events[i] = m})
Delivered(m) == Cardinality({i \in DOMAIN delivered : delivered[i] = m})
Dropped(m) == IF m \in dropped THEN 1 ELSE 0

\* C8: the queue never holds more than its capacity; a producer facing a
\* full queue cannot enqueue (it blocks) and can as soon as there is room;
\* every message received so far was either dropped on decode failure or is
\* in exactly one place: in the hands of one blocked producer, once in the
\* queue, or delivered once; and while the process runs a queued event can
\* always be dequeued.
C8_Backpressure ==
    /\ Len(events) <= Concurrency
    /\ \A k \in Clients :
          holding[k] # 0 =>
             (ENABLED HandlerEnqueue(k)) = (~panicked /\ Len(events) < Concurrency)
    /\ (events # <<>> /\ ~panicked) => ENABLED ConsumerDequeue
    /\ \A m \in 1..msgCount :
          /\ Holders(m) + Queued(m) + Delivered(m) + Dropped(m) = 1
    /\ \A k \in Clients : holding[k] \in 0..msgCount
    /\ Range(events) \cup Range(delivered) \cup dropped \subseteq 1..msgCount

\* C8 witness: the queue is full and a producer is blocked with the next
\* event.
C8_Witness ==
    /\ Len(events) = Concurrency
    /\ \E k \in Clients : holding[k] # 0
    /\ ~panicked

\* A step in which Stop() is entered (line 288).
StopEntered == stopPc = "idle" /\ (stopPc' # "idle" \/ stopCalls' # stopCalls)

\* C9: a Stop() that finds the transport not connected returns nil in that
\* same step, for every call: no unsubscribe, no disconnect, no wait, and the
\* transport handle, the clients and the event queue are as before.
C9_StopWhenDisconnected ==
    [][ (StopEntered /\ ~IsConnected(conn)) =>
            /\ stopPc' = "idle"
            /\ stopResult' = "nil"
            /\ stopCalls' = stopCalls + 1
            /\ stopLog' = <<>>
            /\ UNCHANGED <<conn, cstate, subscribed, events, holding,
                           delivered, lpc, mon>> ]_vars

\* C9 witness: Stop() has returned nil and no client was ever disconnected
\* by it.
C9_Witness ==
    /\ stopCalls >= 1
    /\ stopPc = "idle"
    /\ stopResult = "nil"
    /\ \A k \in Clients : cstate[k] # "closed"

Kinds(log) == [i \in DOMAIN log |-> log[i][1]]

\* C10: a Stop() that finds the transport connected issues unsubscribe, then
\* disconnect, then waits, in that order, and then returns nil, whether the
\* unsubscribe succeeded or not.
C10_StopWhenConnected ==
    [][ /\ (StopEntered /\ IsConnected(conn)) =>
              (stopPc' = "unsubscribe" /\ stopLog' = <<>> /\ stopCalls' = stopCalls)
        /\ stopPc = "unsubscribe" => stopLog = <<>>
        /\ (stopPc = "unsubscribe" /\ stopPc' # stopPc) =>
              /\ stopPc' = "disconnect"
              /\ Kinds(stopLog') = <<"unsubscribe">>
        /\ (stopPc = "disconnect" /\ stopPc' # stopPc) =>
              /\ stopPc' = "sleep"
              /\ Kinds(stopLog') = <<"unsubscribe", "disconnect">>
              /\ cstate'[conn] = "closed"
        /\ (stopPc = "sleep" /\ stopPc' # stopPc) =>
              /\ stopPc' = "idle"
              /\ stopResult' = "nil"
              /\ stopCalls' = stopCalls + 1
        /\ stopPc # "idle" => stopResult = "none" ]_vars

\* C10 witness: the unsubscribe failed, the disconnect was issued all the
\* same, and Stop() is in its graceful wait.
C10_Witness ==
    /\ stopPc = "sleep"
    /\ Len(stopLog) = 2
    /\ stopLog[1][1] = "unsubscribe"
    /\ stopLog[1][3] = FALSE
    /\ stopLog[2][1] = "disconnect"

\* ---------------------------------------------------------------------
\* Validate: the seven rules
\* ---------------------------------------------------------------------

\* The rules a configuration has to meet, numbered in the order in which
\* they are to be checked.
RuleHolds(data, r) ==
    CASE r = 1 -> data.present
      [] r = 2 -> IsString(data.network) /\ data.network.s \in AvailableConnectionTypes
      [] r = 3 -> /\ IsString(data.address)
                  /\ Len(data.address.s) >= MinAddressLen
                  /\ Contains(data.address.s, ":")
      [] r = 4 -> IsString(data.username)
      [] r = 5 -> IsString(data.password)
      [] r = 6 -> IsString(data.clientId) /\ Len(data.clientId.s) >= MinClientIDLen
      [] r = 7 -> IsString(data.topic)
Rules == 1..7
AllRulesHold(data) == \A r \in Rules : RuleHolds(data, r)
Violated(data) == {r \in Rules : ~RuleHolds(data, r)}
FirstViolated(data) ==
    CHOOSE r \in Violated(data) : \A q \in Violated(data) : r <= q

\* The returned errors that name the field of a rule.
ErrorsOfRule(r) ==
    CASE r = 1 -> {"errConnectionMissing"}
      [] r = 2 -> {"errNetworkNotSet", "errNetworkNotValid"}
      [] r = 3 -> {"errAddressNotSet", "errAddressNotValid"}
      [] r = 4 -> {"errUsernameNotSet"}
      [] r = 5 -> {"errPasswordNotSet"}
      [] r = 6 -> {"errClientIdNotSet", "errClientIdTooShort"}
      [] r = 7 -> {"errTopicNotSet"}

\* C11: Validate returns success exactly when all seven rules hold; when
\* one is violated the failure it reports is the one of the first rule
\* violated, in the order 1..7; the configuration tcp / 10.0.0.1:1883 /
\* "" / "" / cl1 / sensors/1 is accepted.
C11_ValidateRulesInOrder ==
    validateResult # "none" =>
        /\ (validateResult = "nil") <=> AllRulesHold(config)
        /\ ~AllRulesHold(config) =>
               validateResult \in ErrorsOfRule(FirstViolated(config))
        /\ config = DefaultConfig => validateResult = "nil"

\* C12: for every configuration that violates a rule, Validate returns an
\* error value (it does not abort) and that error names a field whose rule
\* the configuration violates.
C12_ValidateReturnsFieldError ==
    (validateResult # "none" /\ ~AllRulesHold(config)) =>
        /\ validateResult # "panic"
        /\ validateResult \in UNION {ErrorsOfRule(r) : r \in Violated(config)}

\* ---------------------------------------------------------------------
\* Heartbeat monitors and the signals
\* ---------------------------------------------------------------------

\* Monitors that have been started and have not returned.
ActiveMonitors == {k \in Clients : mon[k] \in {"select", "sendReload"}}

\* C13: at most one monitor is running, it watches the client the
\* Connection points to, and it runs only while the loop waits for its
\* reload: the monitor of the previous iteration has returned before the
\* loop goes on to install a replacement client.
C13_OneMonitor ==
    /\ Cardinality(ActiveMonitors) <= 1
    /\ \A k \in ActiveMonitors : k = conn /\ lpc = "waitReload"

\* The loop has installed a replacement client after the first monitor
\* returned.
C13_Witness == conn = 2 /\ mon[1] = "exited" /\ cstate[2] = "connecting"

\* C14: closing the `connected` signal in a later iteration is harmless:
\* the loop never ends in a panic (the only panic of the model is the close
\* of the already closed channel at line 66).
C14_ConnectedSignalHarmless == ~panicked

\* C15: a monitor that takes the stop signal does so from its select,
\* without emitting reload (the loop stays where it is), and once a monitor
\* has stopped that way the loop makes no further step: no new client, no
\* connect and no subscribe attempt, no new monitor.
C15_StopSignalParksMonitorAndLoop ==
    [][ /\ \A k \in Clients :
              (mon[k] # "stopped" /\ mon'[k] = "stopped") =>
                  (mon[k] = "select" /\ lpc = "waitReload" /\ lpc' = lpc)
        /\ (\E k \in Clients : mon[k] = "stopped") =>
              /\ lpc = "waitReload"
              /\ UNCHANGED <<lpc, conn, connectLog, subAttempts, mon>>
      ]_vars

\* The connection is lost after the monitor took the stop signal; the
\* loop is still parked.
C15_Witness ==
    conn # NoClient /\ mon[conn] = "stopped" /\ cstate[conn] = "down"

\* ---------------------------------------------------------------------
\* The two shutdown paths together
\* ---------------------------------------------------------------------

\* Start has succeeded and neither shutdown path has been taken yet.
Started == startResult = "nil" /\ stopCalls = 0 /\ stopPc = "idle" /\ sig = "idle"

\* A Stop() call has disconnected the transport and returned, and the stop
\* signal has been raised.
BothInvoked ==
    /\ stopCalls >= 1 /\ stopPc = "idle"
    /\ \E k \in Clients : cstate[k] = "closed"
    /\ sig # "idle"

\* The transport of the Connection is disconnected and the loop is not on
\* its way to create, connect or subscribe a client.
TornDown ==
    /\ ~panicked
    /\ conn # NoClient /\ ~IsConnected(conn)
    /\ lpc \in {"waitReload", "sendErr"}

\* C16: once both Stop() and the stop signal have been invoked after a
\* successful Start, in whatever order and however the monitor is
\* scheduled, the system eventually reaches and stays in a state in which
\* the transport is disconnected and no client is being created or
\* connected.
C16_FullTeardown == [](Started => [](BothInvoked => <>[]TornDown))

\* ---------------------------------------------------------------------
\* BrokerHandler on a message it cannot decode
\* ---------------------------------------------------------------------

\* C17: a message that fails to decode is dropped and nothing else
\* happens: the step that drops it leaves the queue, the events held by
\* the handlers and the delivered events as they were (the handler has
\* returned and holds nothing), and a dropped message is never found in
\* the queue, in a handler or at the consumer.
C17_DecodeFailureDropsOnlyThatMessage ==
    [][ /\ dropped' # dropped =>
              /\ dropped' = dropped \cup {msgCount + 1}
              /\ msgCount' = msgCount + 1
              /\ UNCHANGED <<events, holding, delivered>>
        /\ \A m \in dropped' :
              /\ m \notin Range(events') /\ m \notin Range(delivered')
              /\ \A k \in Clients : holding'[k] # m
      ]_vars

\* Message 1 was dropped and message 2, which came after it, has been
\* decoded and enqueued.
C17_Witness == dropped = {1} /\ 2 \in Range(events)

\* ---------------------------------------------------------------------
\* c.conn as seen by Stop()
\* ---------------------------------------------------------------------

\* C18: the loop does not replace c.conn while a Stop() call is between
\* two of its uses of it (after the IsConnected of line 291 and before the
\* Disconnect of line 309), so the transport operations of one Stop() call
\* all act on the same client.
C18_HandleStableDuringUse ==
    [][ /\ stopPc \in {"unsubscribe", "disconnect"} => conn' = conn
        /\ \A i, j \in DOMAIN stopLog' : stopLog'[i][2] = stopLog'[j][2]
      ]_vars

\* ---------------------------------------------------------------------
\* The event queue across reconnects
\* ---------------------------------------------------------------------

\* C19: the queue exists before the loop creates its first client, and no
\* step of the loop or of a monitor replaces, closes or empties it: such a
\* step leaves the pending events as they are, the queue changes only by
\* a handler appending one event or a consumer taking the oldest one, and
\* it never holds more than its capacity.
C19_QueueSurvivesReconnect ==
    [][ /\ conn' # NoClient => callerPc' # "init"
        /\ (lpc' # lpc \/ conn' # conn \/ mon' # mon \/ connectLog' # connectLog
               \/ panicked' # panicked)
              => UNCHANGED <<events, delivered>>
        /\ events' # events =>
              \/ \E m \in 1..MaxMsgs : events' = Append(events, m)
              \/ events # <<>> /\ events' = Tail(events)
        /\ Len(events') <= Concurrency
      ]_vars

\* The loop has installed a replacement client while an event enqueued
\* under the first client is still pending.
C19_Witness == conn = 2 /\ cstate[2] = "connecting" /\ events # <<>>

\* ---------------------------------------------------------------------
\* After a Start that returned an error
\* ---------------------------------------------------------------------

====
